---- MODULE Spec2Model ----
(***************************************************************************)
(* AURORA BMI scoring pipeline: rolling baselines, z-score normalisation,  *)
(* weighted composite, percentile bounder, band classifier, and the daily  *)
(* pipeline that loads and persists the history file around them.          *)
(*                                                                         *)
(* Floating point is modelled in fixed point.  Units:                      *)
(*   raw feature value   hundredths        (0.75  is 75)                   *)
(*   baseline mean, std  ten-thousandths   (0.05  is 500)                  *)
(*   z-score             tenths            (10.0  is 100)                  *)
(*   weight              hundredths        (0.30  is 30)                   *)
(*   composite           thousandths       (0.735 is 735)                  *)
(*   percentile, score   thousandths of a point (25.0 is 25000)            *)
(* Python None is modelled by None, a float NaN (a null cell read back by  *)
(* pandas) by NaN.                                                         *)
(***************************************************************************)
EXTENDS Integers, Sequences, FiniteSets, TLC

\* ------------------------------------------------------------------------
\* Program constants
\* ------------------------------------------------------------------------
ROLLING_WINDOW == 63

MIN_OBSERVATIONS == 21

MIN_COMPOSITE_HISTORY == 10

FEATURE_NAMES == <<"VPB", "IPB", "SBC", "IPO">>

FeatureNameSet == {"VPB", "IPB", "SBC", "IPO"}

WEIGHTS == [VPB |-> 30, IPB |-> 25, SBC |-> 25, IPO |-> 20]

None == -1000001

NaN == -1000002

PCT100 == 100000

\* ------------------------------------------------------------------------
\* Bounds of the model
\* ------------------------------------------------------------------------
\* number of daily runs in one behaviour
MaxOps == 2

\* largest z-score given to calculate_composite, in halves
MaxZ == 2

\* largest composite in a history given to calculate_percentile, in halves
MaxC == 2

\* longest composite history given to calculate_percentile
MaxHistLen == 11

\* calls made on a RollingStats
MaxCalls == 3

\* trading days on which the command line is run
MaxDays == 25

\* ------------------------------------------------------------------------
\* Arithmetic helpers
\* ------------------------------------------------------------------------
Abs(x) == IF x < 0 THEN -x ELSE x

Max2(a, b) == IF a >= b THEN a ELSE b

Min2(a, b) == IF a <= b THEN a ELSE b

\* the sequence s with every element evaluated
Materialize(s) == SubSeq(s, 1, Len(s))

\* the element of a set of one element
TheOne(S) == CHOOSE x \in S : TRUE

\* a / b rounded toward zero, b > 0
DivTrunc(a, b) == IF a >= 0 THEN a \div b ELSE -((-a) \div b)

CeilDiv(a, b) == (a + b - 1) \div b

RECURSIVE SqrtSearch(_, _, _)
SqrtSearch(n, lo, hi) ==
    IF lo >= hi THEN lo
    ELSE TheOne({IF mid * mid >= n THEN SqrtSearch(n, lo, mid)
                                   ELSE SqrtSearch(n, mid + 1, hi) :
                    mid \in {(lo + hi) \div 2}})

\* square root rounded up: positive exactly when n is positive
CeilSqrt(n) == SqrtSearch(n, 0, 46340)

RECURSIVE SumRange(_, _, _)
SumRange(s, lo, hi) ==
    IF lo > hi THEN 0
    ELSE IF lo = hi THEN s[lo]
    ELSE TheOne({SumRange(s, lo, mid) + SumRange(s, mid + 1, hi) :
                    mid \in {(lo + hi) \div 2}})

SumSeq(s) == SumRange(s, 1, Len(s))

\* sum of the squared deviations of the values (times scale) from m
SumSqDev(s, scale, m) ==
    TheOne({SumSeq(sq) :
        sq \in {Materialize([i \in 1..Len(s) |->
                    (s[i] * scale - m) * (s[i] * scale - m)])}})

HasNaN(s) == \E i \in 1..Len(s) : s[i] = NaN

\* np.mean of a list of values, in units of 1/scale of the values' unit
NpMean(s, scale) ==
    IF HasNaN(s) \/ s = <<>> THEN NaN
    ELSE DivTrunc(SumSeq(s) * scale, Len(s))

\* np.std with the given ddof, same units as NpMean
NpStd(s, scale, ddof) ==
    IF HasNaN(s) \/ Len(s) <= ddof THEN NaN
    ELSE TheOne({TheOne({CeilSqrt(var) :
                    var \in {CeilDiv(SumSqDev(s, scale, m), Len(s) - ddof)}}) :
                m \in {NpMean(s, scale)}})

\* ------------------------------------------------------------------------
\* normalization/methods.py
\* ------------------------------------------------------------------------
\* variant: the quotient clipped to [-3, 3]
ZscoreClipped(value, mean, std) ==
    IF std = 0 \/ std = None \/ std = NaN THEN 0
    ELSE Max2(-30, Min2(30, DivTrunc((value * 100 - mean) * 10, std)))

zscore_normalize(value, mean, std) ==
    IF std = 0 \/ std = None \/ std = NaN THEN 0
    ELSE DivTrunc((value * 100 - mean) * 10, std)

\* sum(1 for h in history if h < value)
CountLess(value, history) ==
    Cardinality({i \in 1..Len(history) : history[i] < value})

\* variant: the count times 100, not divided by the length of the history
PercentileRankNoDivide(value, history) ==
    IF history = <<>> THEN 50000
    ELSE CountLess(value, history) * PCT100

\* variant: history values equal to the value are counted too
PercentileRankCountsTies(value, history) ==
    IF history = <<>> THEN 50000
    ELSE (Cardinality({i \in 1..Len(history) : history[i] <= value}) * PCT100)
            \div Len(history)

percentile_rank(value, history) ==
    IF history = <<>> THEN 50000
    ELSE (CountLess(value, history) * PCT100) \div Len(history)

\* 100000 / (1 + exp(-t)) for t = 0.0, 0.1, ..., 11.9, rounded down
SigmoidTable ==
    << 50000, 52497, 54983, 57444, 59868, 62245, 64565, 66818, 68997, 71094,
       73105, 75026, 76852, 78583, 80218, 81757, 83201, 84553, 85814, 86989,
       88079, 89090, 90024, 90887, 91682, 92414, 93086, 93702, 94267, 94784,
       95257, 95689, 96083, 96442, 96770, 97068, 97340, 97587, 97811, 98015,
       98201, 98369, 98522, 98661, 98787, 98901, 99004, 99098, 99183, 99260,
       99330, 99394, 99451, 99503, 99550, 99592, 99631, 99666, 99698, 99726,
       99752, 99776, 99797, 99816, 99834, 99849, 99864, 99877, 99888, 99899,
       99908, 99917, 99925, 99932, 99938, 99944, 99949, 99954, 99959, 99962,
       99966, 99969, 99972, 99975, 99977, 99979, 99981, 99983, 99984, 99986,
       99987, 99988, 99989, 99990, 99991, 99992, 99993, 99993, 99994, 99994,
       99995, 99995, 99996, 99996, 99996, 99997, 99997, 99997, 99997, 99998,
       99998, 99998, 99998, 99998, 99998, 99998, 99999, 99999, 99999, 99999 >>

\* in float64 1/(1+exp(-t)) is exactly 1.0 from t = 36.8 on
SigmoidSaturation == 368

\* sigmoid of t (in tenths), times 100, in thousandths of a point
SigmoidPos(t) ==
    IF t >= SigmoidSaturation THEN PCT100
    ELSE IF t >= Len(SigmoidTable) THEN PCT100 - 1
    ELSE SigmoidTable[t + 1]

\* sigmoid_scale(value, midpoint, steepness) * 100; value and midpoint in
\* thousandths, steepness sNum / sDen per thousandth
sigmoid_scale(value, midpoint, sNum, sDen) ==
    LET t == DivTrunc((value - midpoint) * sNum * 10, sDen)
    IN IF t >= 0 THEN SigmoidPos(t) ELSE PCT100 - SigmoidPos(-t)

\* ------------------------------------------------------------------------
\* core/types.py
\* ------------------------------------------------------------------------
\* variant: a boundary value goes to the upper band
FromScoreUpperBand(score) ==
    IF score < 25000 THEN "GREEN"
    ELSE IF score < 50000 THEN "LIGHT_GREEN"
    ELSE IF score < 75000 THEN "YELLOW"
    ELSE "RED"

from_score(score) ==
    IF score <= 25000 THEN "GREEN"
    ELSE IF score <= 50000 THEN "LIGHT_GREEN"
    ELSE IF score <= 75000 THEN "YELLOW"
    ELSE "RED"

\* FeatureSet: the four computed breadth metrics of one trading day
FeatureSet(d, vpb, ipb, sbc, ipo) ==
    [trade_date |-> d, vpb |-> vpb, ipb |-> ipb, sbc |-> sbc, ipo |-> ipo]

\* the dict {"VPB": features.vpb, ...} built by normalize, add_observation
\* and _enrich_components
feature_values(features) ==
    [VPB |-> features.vpb, IPB |-> features.ipb,
     SBC |-> features.sbc, IPO |-> features.ipo]

ScoreComponent(name, weight, raw_value, zscore, contribution) ==
    [name |-> name, weight |-> weight, raw_value |-> raw_value,
     zscore |-> zscore, contribution |-> contribution]

\* ------------------------------------------------------------------------
\* normalization/rolling.py
\* ------------------------------------------------------------------------
\* deque(maxlen).append
\* variant: a deque without maxlen
DequeAppendUnbounded(q, x, maxlen) == Append(q, x)

DequeAppend(q, x, maxlen) ==
    IF Len(q) >= maxlen THEN Append(Tail(q), x) ELSE Append(q, x)

\* appending the values of xs one at a time
DequeExtend(q, xs, maxlen) ==
    LET all == q \o xs
    IN IF Len(all) > maxlen THEN SubSeq(all, Len(all) - maxlen + 1, Len(all))
       ELSE all

EmptyRollingStats == [values |-> <<>>, dates |-> <<>>]

\* variant: the observation is stored under the day before
AddDayBefore(rs, value, trade_date) ==
    [values |-> DequeAppend(rs.values, value, ROLLING_WINDOW),
     dates  |-> DequeAppend(rs.dates, trade_date - 1, ROLLING_WINDOW)]

add(rs, value, trade_date) ==
    [values |-> DequeAppend(rs.values, value, ROLLING_WINDOW),
     dates  |-> DequeAppend(rs.dates, trade_date, ROLLING_WINDOW)]

\* RollingStats.add_bulk: add for every pair of zip(values, dates), which
\* stops at the shorter of the two
add_bulk(rs, values, dates) ==
    LET n == Min2(Len(values), Len(dates))
    IN [values |-> DequeExtend(rs.values, SubSeq(values, 1, n), ROLLING_WINDOW),
        dates  |-> DequeExtend(rs.dates, SubSeq(dates, 1, n), ROLLING_WINDOW)]

count(rs) == Len(rs.values)

\* variant: more than min_observations required
IsReadyStrict(rs) == count(rs) > MIN_OBSERVATIONS

is_ready(rs) == count(rs) >= MIN_OBSERVATIONS

mean(rs) == IF ~is_ready(rs) THEN None ELSE NpMean(rs.values, 100)

std(rs) == IF ~is_ready(rs) THEN None ELSE NpStd(rs.values, 100, 1)

\* MultiFeatureRollingCalculator.add_observation; features is a dict
\* (a dict keyed by feature names is a record over the four names; a name
\* that is no key of the dict, or whose value is None, maps to None)
calc_add_observation(stats, trade_date, features) ==
    LET Added(F) == IF features[F] # None
                    THEN add(stats[F], features[F], trade_date)
                    ELSE stats[F]
    IN [VPB |-> Added("VPB"), IPB |-> Added("IPB"),
        SBC |-> Added("SBC"), IPO |-> Added("IPO")]

\* MultiFeatureRollingCalculator.load_from_history: add_observation for
\* every record in order.  Appending to a deque(maxlen) one value at a time
\* leaves the last maxlen values of the old content followed by the new
\* values, so the loop is computed per feature in one step.
load_from_history(stats, history) ==
    LET Loaded(F) ==
            LET Has(r) == r.features[F] # None
                obs == SelectSeq(history, Has)
                vs == Materialize([i \in 1..Len(obs) |-> obs[i].features[F]])
                ds == Materialize([i \in 1..Len(obs) |-> obs[i].date])
            IN [values |-> DequeExtend(stats[F].values, vs, ROLLING_WINDOW),
                dates  |-> DequeExtend(stats[F].dates, ds, ROLLING_WINDOW)]
    IN [VPB |-> Loaded("VPB"), IPB |-> Loaded("IPB"),
        SBC |-> Loaded("SBC"), IPO |-> Loaded("IPO")]

\* ------------------------------------------------------------------------
\* scoring/composite.py
\* ------------------------------------------------------------------------
RECURSIVE SumContributions(_)
SumContributions(cs) ==
    IF cs = <<>> THEN 0 ELSE Head(cs).contribution + SumContributions(Tail(cs))

\* the names the loop over WEIGHTS does not skip, in its order
PresentNames(z_scores) ==
    SelectSeq(FEATURE_NAMES, LAMBDA F : z_scores[F] # None)

ComponentsOf(z_scores) ==
    LET names == PresentNames(z_scores)
    IN Materialize([i \in 1..Len(names) |->
            ScoreComponent(names[i], WEIGHTS[names[i]], 0,
                           z_scores[names[i]], WEIGHTS[names[i]] * z_scores[names[i]])])

RECURSIVE SumWeights(_)
SumWeights(cs) ==
    IF cs = <<>> THEN 0 ELSE Head(cs).weight + SumWeights(Tail(cs))

\* variant: the weighted sum divided by the sum of the weights used
CompositeRenormalized(z_scores) ==
    LET components == ComponentsOf(z_scores)
    IN [composite  |-> IF components = <<>> THEN 0
                       ELSE DivTrunc(SumContributions(components) * 100,
                                     SumWeights(components)),
        components |-> components]

calculate_composite(z_scores) ==
    LET components == ComponentsOf(z_scores)
    IN [composite  |-> SumContributions(components),
        components |-> components]

\* ------------------------------------------------------------------------
\* normalization/pipeline.py
\* ------------------------------------------------------------------------
\* variant: PARTIAL also when no feature was normalised
StatusOfEmptyIsPartial(z_scores, excluded) ==
    IF Len(excluded) = 0 THEN "COMPLETE" ELSE "PARTIAL"

StatusOf(z_scores, excluded) ==
    IF Len(excluded) = 0 THEN "COMPLETE"
    ELSE IF \E F \in FeatureNameSet : z_scores[F] # None THEN "PARTIAL"
    ELSE "INSUFFICIENT"

\* normalize reads the baselines and today's values, nothing else
normalize(stats, features) ==
    LET fv == feature_values(features)
        Normalized(F) == fv[F] # None /\ is_ready(stats[F])
        Z(F) == IF Normalized(F)
                THEN zscore_normalize(fv[F], mean(stats[F]), std(stats[F]))
                ELSE None
        z_scores == [VPB |-> Z("VPB"), IPB |-> Z("IPB"),
                     SBC |-> Z("SBC"), IPO |-> Z("IPO")]
        excluded == SelectSeq(FEATURE_NAMES, LAMBDA F : ~Normalized(F))
    IN [z_scores |-> z_scores,
        excluded |-> excluded,
        status   |-> StatusOf(z_scores, excluded)]

\* NormalizationPipeline.add_observation
add_observation(stats, features) ==
    LET valid_features == feature_values(features)
    IN calc_add_observation(stats, features.trade_date, valid_features)

LastN(s, n) == IF Len(s) > n THEN SubSeq(s, Len(s) - n + 1, Len(s)) ELSE s

add_composite_to_history(history, composite) ==
    LastN(Append(history, composite), ROLLING_WINDOW)

\* which branch of calculate_percentile a composite takes
percentile_path(composite, history) ==
    IF Len(history) < MIN_COMPOSITE_HISTORY THEN "bootstrap"
    ELSE LET pct == percentile_rank(composite, history)
             hist_std == NpStd(history, 1, 0)
         IN IF (pct <= 1000 \/ pct >= 99000) /\ hist_std > 0
            THEN IF pct <= 1000 THEN "blend_low" ELSE "blend_high"
            ELSE "percentile"

\* variant: at the edges the sigmoid percentile is taken as it is
CalculatePercentileUnclamped(composite, history) ==
    IF Len(history) < MIN_COMPOSITE_HISTORY
    THEN PCT100 - sigmoid_scale(composite, 0, 1, 2000)
    ELSE LET pct == percentile_rank(composite, history)
             hist_std == NpStd(history, 1, 0)
         IN IF (pct <= 1000 \/ pct >= 99000) /\ hist_std > 0
            THEN PCT100 - sigmoid_scale(composite, NpMean(history, 1), 1, hist_std)
            ELSE PCT100 - pct

\* variant: the percentile path whatever the length of the history
CalculatePercentileNoBootstrap(composite, history) ==
    LET pct == percentile_rank(composite, history)
        hist_std == NpStd(history, 1, 0)
        sigmoid_pct == sigmoid_scale(composite, NpMean(history, 1), 1, hist_std)
    IN IF history # <<>> /\ (pct <= 1000 \/ pct >= 99000) /\ hist_std > 0
       THEN IF pct <= 1000 THEN PCT100 - Max2(1000, Min2(25000, sigmoid_pct))
            ELSE PCT100 - Min2(99000, Max2(75000, sigmoid_pct))
       ELSE PCT100 - pct

calculate_percentile(composite, history) ==
    IF Len(history) < MIN_COMPOSITE_HISTORY
    THEN PCT100 - sigmoid_scale(composite, 0, 1, 2000)
    ELSE LET pct == percentile_rank(composite, history)
             hist_mean == NpMean(history, 1)
             hist_std == NpStd(history, 1, 0)
             sigmoid_pct == sigmoid_scale(composite, hist_mean, 1, hist_std)
             blended == IF (pct <= 1000 \/ pct >= 99000) /\ hist_std > 0
                        THEN IF pct <= 1000
                             THEN Max2(1000, Min2(25000, sigmoid_pct))
                             ELSE Min2(99000, Max2(75000, sigmoid_pct))
                        ELSE pct
         IN PCT100 - blended

\* ------------------------------------------------------------------------
\* scoring/engine.py
\* ------------------------------------------------------------------------
_enrich_components(components, features) ==
    LET fv == feature_values(features)
    IN Materialize([i \in 1..Len(components) |->
            ScoreComponent(components[i].name, components[i].weight,
                           IF fv[components[i].name] = None THEN 0
                           ELSE fv[components[i].name],
                           components[i].zscore, components[i].contribution)])

\* BMIEngine.calculate: the result and the pipeline state it leaves
calculate(stats, history, features) ==
    TheOne({TheOne({TheOne({
        [result |-> [trade_date        |-> features.trade_date,
                     score             |-> aurora_score,
                     band              |-> from_score(aurora_score),
                     components        |-> _enrich_components(comp.components, features),
                     raw_composite     |-> comp.composite,
                     status            |-> norm.status,
                     excluded_features |-> norm.excluded],
         stats   |-> add_observation(stats, features),
         history |-> add_composite_to_history(history, comp.composite)] :
            aurora_score \in {calculate_percentile(comp.composite, history)}}) :
            comp \in {calculate_composite(norm.z_scores)}}) :
            norm \in {normalize(stats, features)}})

\* ------------------------------------------------------------------------
\* explain/generator.py and the divergence diagnostic of scoring/composite.py
\* ------------------------------------------------------------------------
\* |VPB_z - IPB_z| above which the divergence is flagged, in tenths
VPB_IPB_DIVERGENCE_WARN == 10

\* the z-score of the component called name, None without such a component
ZscoreOf(components, name) ==
    IF \E i \in 1..Len(components) : components[i].name = name
    THEN components[CHOOSE i \in 1..Len(components) :
                        components[i].name = name].zscore
    ELSE None

\* ExplanationGenerator._format_divergence: the key of the template it
\* returns, "" for the empty string
_format_divergence(components) ==
    LET vpb_z == ZscoreOf(components, "VPB")
        ipb_z == ZscoreOf(components, "IPB")
    IN IF vpb_z = None \/ ipb_z = None THEN ""
       ELSE IF Abs(vpb_z - ipb_z) < VPB_IPB_DIVERGENCE_WARN THEN ""
       ELSE IF vpb_z - ipb_z > VPB_IPB_DIVERGENCE_WARN THEN "narrow_leadership"
       ELSE "broad_weak"

\* one line of an explanation: its kind and what it is about
Line(kind, of) == [kind |-> kind, of |-> of]

\* sorted(components, key=lambda c: abs(c.zscore), reverse=True)[:n]; the
\* sort is stable, components of equal |zscore| keep their order
top_drivers(components, n) ==
    LET len == Len(components)
        Before(j, i) ==
            \/ Abs(components[j].zscore) > Abs(components[i].zscore)
            \/ (Abs(components[j].zscore) = Abs(components[i].zscore) /\ j < i)
        place == Materialize([i \in 1..len |->
                    1 + Cardinality({j \in 1..len : Before(j, i)})])
    IN Materialize([k \in 1..Min2(n, len) |->
            components[CHOOSE i \in 1..len : place[i] = k]])

\* ExplanationGenerator._format_drivers_structured: one bullet per driver
_format_drivers_structured(components) ==
    LET top == top_drivers(components, 2)
    IN Materialize([k \in 1..Len(top) |-> Line("driver", top[k].name)])

\* ExplanationGenerator.generate: the lines it joins with newlines.  Every
\* band has a template; the status template is empty for COMPLETE only.
generate(band, components, excluded, status) ==
    LET driver_lines == _format_drivers_structured(components)
        divergence_text == _format_divergence(components)
        has_status_text == status # "COMPLETE"
    IN <<Line("status", band)>>
       \o (IF driver_lines # <<>>
           THEN <<Line("blank", ""), Line("drivers_header", "")>> \o driver_lines
           ELSE <<>>)
       \o (IF divergence_text # ""
           THEN <<Line("blank", ""), Line("note", divergence_text)>>
           ELSE <<>>)
       \o (IF has_status_text \/ excluded # <<>>
           THEN <<Line("blank", "")>>
                \o (IF has_status_text THEN <<Line("warning", status)>> ELSE <<>>)
                \o (IF excluded # <<>> THEN <<Line("excluded", "")>> ELSE <<>>)
           ELSE <<>>)

\* assess_vpb_ipb_divergence (scoring/composite.py): the divergence in tenths
\* and which interpretation text is returned
assess_vpb_ipb_divergence(components) ==
    LET vpb_z == ZscoreOf(components, "VPB")
        ipb_z == ZscoreOf(components, "IPB")
        divergence == vpb_z - ipb_z
    IN IF vpb_z = None \/ ipb_z = None
       THEN [divergence |-> None, interpretation |-> "cannot_assess"]
       ELSE [divergence |-> divergence,
             interpretation |->
                IF divergence > 10 THEN "strong_narrow"
                ELSE IF divergence > 5 THEN "moderate_narrow"
                ELSE IF divergence < -10 THEN "strong_broad"
                ELSE IF divergence < -5 THEN "moderate_broad"
                ELSE "aligned"]

\* BMIEngine._default_explanation: one line, the band description followed
\* in the same line by the drivers and the excluded features
_default_explanation(band, components, excluded) ==
    <<Line("description", band)>>
    \o (IF components # <<>> THEN <<Line("inline_drivers", "")>> ELSE <<>>)
    \o (IF excluded # <<>> THEN <<Line("inline_excluded", "")>> ELSE <<>>)

\* ------------------------------------------------------------------------
\* BMIEngine.calculate statement by statement.  An engine record is one call:
\*   pc          : the step to execute next
\*   generator   : the explanation_generator argument ("none" for None,
\*                 "generator" for an ExplanationGenerator, "raising" for
\*                 one whose generate raises)
\*   stats, history : the pipeline's baselines and composite history
\*   given       : stats and history as they were when calculate was called
\*   the other fields are the local variables of calculate
\* ------------------------------------------------------------------------
EngineCall(generator, features, stats, history) ==
    [pc |-> "normalize", generator |-> generator, features |-> features,
     stats |-> stats, history |-> history,
     given |-> [stats |-> stats, history |-> history],
     z_scores |-> [VPB |-> None, IPB |-> None, SBC |-> None, IPO |-> None],
     excluded |-> <<>>, status |-> "NONE",
     composite |-> 0, components |-> <<>>, score |-> 0, band |-> "NONE",
     explanation |-> <<>>]

\* variant: the observation is recorded before the generator is called
EngineExplainAppendsFirst(e) ==
    IF e.generator = "raising"
    THEN [e EXCEPT !.pc = "raised",
                   !.stats = add_observation(e.stats, e.features)]
    ELSE [e EXCEPT !.pc = "divergence",
                   !.explanation = generate(e.band, e.components, e.excluded,
                                            e.status)]

\* step 5: generate the explanation
engine_explain(e) ==
    IF e.generator = "raising" THEN [e EXCEPT !.pc = "raised"]
    ELSE [e EXCEPT !.pc = "divergence",
                   !.explanation =
                       IF e.generator = "generator"
                       THEN generate(e.band, e.components, e.excluded, e.status)
                       ELSE _default_explanation(e.band, e.components,
                                                 e.excluded)]

\* variant: a flagged divergence raises the score
EngineDivergencePenalizes(e) ==
    LET a == assess_vpb_ipb_divergence(e.components)
    IN IF a.divergence # None /\ Abs(a.divergence) > VPB_IPB_DIVERGENCE_WARN
       THEN [e EXCEPT !.pc = "append", !.score = Min2(PCT100, @ + 1000)]
       ELSE [e EXCEPT !.pc = "append"]

\* step 6: the divergence diagnostic; the interpretation is appended to the
\* explanation string after one space, without a newline
engine_divergence(e) ==
    LET a == assess_vpb_ipb_divergence(e.components)
    IN IF a.divergence # None /\ Abs(a.divergence) > VPB_IPB_DIVERGENCE_WARN
       THEN [e EXCEPT !.pc = "append",
                      !.explanation = Append(@, Line("appended", a.interpretation))]
       ELSE [e EXCEPT !.pc = "append"]

\* step 7: add the observation and the composite to the history
engine_append(e) ==
    [e EXCEPT !.pc = "returned",
              !.stats = add_observation(e.stats, e.features),
              !.history = add_composite_to_history(e.history, e.composite)]

\* ------------------------------------------------------------------------
\* The persisted history file bmi_history.parquet
\*   exists : whether the file is there
\*   cols   : the feature columns of the frame
\*   rows   : its rows, in file order; a null cell is None
\* ------------------------------------------------------------------------
NoFile == [exists |-> FALSE, cols |-> {}, rows |-> <<>>]

NoFeatures == [VPB |-> None, IPB |-> None, SBC |-> None, IPO |-> None]

HistoryRow(d, vals, raw_composite, score, status) ==
    [date |-> d, vals |-> vals, raw_composite |-> raw_composite,
     score |-> score, status |-> status]

\* df.to_dict("records"): a null cell of an existing column reads back as NaN,
\* a column the frame does not have is no key of the record
to_records(cols, rows) ==
    LET Cell(i, F) == IF F \notin cols THEN None
                      ELSE IF rows[i].vals[F] = None THEN NaN
                      ELSE rows[i].vals[F]
    IN Materialize([i \in 1..Len(rows) |->
        [date |-> rows[i].date,
         features |-> [VPB |-> Cell(i, "VPB"), IPB |-> Cell(i, "IPB"),
                       SBC |-> Cell(i, "SBC"), IPO |-> Cell(i, "IPO")]]])

\* df.sort_values("date"): each row goes to the place given by the number
\* of rows that sort before it (rows of equal date keep their order)
sort_values(rows) ==
    LET n == Len(rows)
        Before(j, i) == rows[j].date < rows[i].date
                        \/ (rows[j].date = rows[i].date /\ j < i)
    IN TheOne({Materialize([k \in 1..n |-> rows[CHOOSE i \in 1..n : place[i] = k]]) :
                place \in {Materialize([i \in 1..n |->
                            Cardinality({j \in 1..n : Before(j, i)}) + 1])}})

\* df.drop_duplicates(subset=["date"], keep="last"): a row stays when no
\* later row has its date; the rows that stay keep their order
drop_duplicates(rows) ==
    LET n == Len(rows)
    IN TheOne({TheOne({
            Materialize([k \in 1..Cardinality(kept) |->
                rows[CHOOSE i \in kept : kept_up_to[i] = k]]) :
                    kept_up_to \in {Materialize([i \in 1..n |->
                                        Cardinality({j \in kept : j <= i})])}}) :
            kept \in {{i \in 1..n :
                        \A j \in (i + 1)..n : rows[j].date # rows[i].date}}})

\* the rows load_history keeps: df[df["date"] <= up_to_date]
LoadFilter(rows, up_to_date) ==
    SelectSeq(rows, LAMBDA r : r.date <= up_to_date)

\* NormalizationPipeline.load_history(up_to_date) on a pipeline whose
\* baselines are stats and whose composite history is history
load_history(stats, history, file, up_to_date) ==
    IF ~file.exists THEN [stats |-> stats, history |-> history, loaded |-> <<>>]
    ELSE TheOne({TheOne({TheOne({
                [stats   |-> load_from_history(stats, records),
                 history |-> Materialize([i \in 1..Len(df) |-> df[i].raw_composite]),
                 loaded  |-> Materialize([i \in 1..Len(df) |-> df[i].date])] :
                    records \in {to_records(file.cols, df)}}) :
                df \in {sort_values(kept)}}) :
            kept \in {IF up_to_date = None THEN file.rows
                      ELSE LoadFilter(file.rows, up_to_date)}})

\* ------------------------------------------------------------------------
\* pipeline/daily.py
\* ------------------------------------------------------------------------
\* the row _save_result writes: raw values of the components only
ResultRow(result) ==
    LET names == {result.components[i].name : i \in 1..Len(result.components)}
        RawOf(F) == (CHOOSE i \in 1..Len(result.components) :
                        result.components[i].name = F)
        Raw(F) == IF F \in names THEN result.components[RawOf(F)].raw_value
                  ELSE None
    IN HistoryRow(result.trade_date,
                  [VPB |-> Raw("VPB"), IPB |-> Raw("IPB"),
                   SBC |-> Raw("SBC"), IPO |-> Raw("IPO")],
                  result.raw_composite, result.score, result.status)

ResultCols(result) ==
    {result.components[i].name : i \in 1..Len(result.components)}

_save_result(file, result) ==
    IF file.exists
    THEN [exists |-> TRUE,
          cols   |-> file.cols \cup ResultCols(result),
          rows   |-> TheOne({drop_duplicates(rows) :
                                rows \in {Append(file.rows, ResultRow(result))}})]
    ELSE [exists |-> TRUE,
          cols   |-> ResultCols(result),
          rows   |-> <<ResultRow(result)>>]

\* DailyPipeline.run(trade_date) with the features extracted from the fetch
\* (loaded and calc are bound as values, each step computed once)
run(stats, history, file, features) ==
    TheOne({TheOne({[result  |-> calc.result,
                     stats   |-> calc.stats,
                     history |-> calc.history,
                     file    |-> _save_result(file, calc.result),
                     loaded  |-> loaded] :
                calc \in {calculate(loaded.stats, loaded.history, features)}}) :
            loaded \in {load_history(stats, history, file, features.trade_date)}})

\* ------------------------------------------------------------------------
\* Inputs of the model
\* ------------------------------------------------------------------------
\* rows of a history file that was imported or written before the first step
\*   neutral : scripts/import_baseline.py, SBC fixed at 0.5 and IPO at 0.0,
\*             VPB and IPB with mean 0.50
\*   varied  : all four features vary from day to day
\*   flat    : every day the same values
\*   bare    : rows the daily pipeline wrote while no feature was normalised
PatternVals(pat, i) ==
    CASE pat = "neutral" ->
            [VPB |-> IF i = 1 THEN 50 ELSE IF i % 2 = 0 THEN 45 ELSE 55,
             IPB |-> IF i = 1 THEN 50 ELSE IF i % 2 = 0 THEN 45 ELSE 55,
             SBC |-> 50, IPO |-> 0]
      [] pat = "varied" ->
            [VPB |-> 50 + (i % 10) * 2, IPB |-> 40 + (i % 5) * 5,
             SBC |-> 55 + (i % 5), IPO |-> 10 + (i % 8) * 2]
      [] pat = "flat" ->
            [VPB |-> 50, IPB |-> 50, SBC |-> 50, IPO |-> 10]
      [] OTHER -> NoFeatures

PatternComposite(pat, i) ==
    CASE pat = "neutral" -> ((i % 7) - 3) * 100
      [] pat = "varied"  -> (((i * 3) % 11) - 5) * 60
      [] OTHER -> 0

PatternCols(pat) == IF pat = "bare" THEN {} ELSE FeatureNameSet

HistoryFile(n, pat) ==
    [exists |-> TRUE,
     cols   |-> PatternCols(pat),
     rows   |-> Materialize([i \in 1..n |->
                    HistoryRow(i, PatternVals(pat, i), PatternComposite(pat, i),
                               50000, "BASELINE")])]

InitialFiles ==
    {NoFile, HistoryFile(9, "bare"), HistoryFile(15, "varied"),
     HistoryFile(21, "neutral"), HistoryFile(30, "flat"), HistoryFile(64, "varied")}

\* the feature values a day's fetch can yield (vpb, ipb, sbc, ipo)
DailyValues ==
    {<<100, 80, 75, 40>>, <<50, 50, 50, 0>>, <<0, 10, 20, 0>>,
     <<88, 40, None, 10>>, <<None, None, None, None>>}

\* the z-scores calculate_composite is applied to, in tenths
ZValues == {5 * k : k \in (-MaxZ)..MaxZ}

\* the dict z_scores restricted to the keys in S
Restrict(z_scores, S) ==
    LET Z(F) == IF F \in S THEN z_scores[F] ELSE None
    IN [VPB |-> Z("VPB"), IPB |-> Z("IPB"), SBC |-> Z("SBC"), IPO |-> Z("IPO")]

\* ------------------------------------------------------------------------
\* State
\* ------------------------------------------------------------------------
VARIABLES
    file,               \* bmi_history.parquet
    stats,              \* MultiFeatureRollingCalculator._stats of the live pipeline
    composite_history,  \* NormalizationPipeline._composite_history
    today,              \* the trade date of the next run
    result,             \* the BMIResult returned last
    obs,                \* what the last run read (for the properties)
    lastRun,            \* first DailyPipeline.run of the current date and inputs
    ops,                \* runs done
    z_all,              \* calculate_composite: z-scores of the four features
    chosen,             \* calculate_composite: the features that are present
    composed,           \* calculate_composite: what it returned
    call,               \* a function of the library called on its own: its arguments
    returned,           \* what that call returned
    rolling,            \* a RollingStats used on its own
    added,              \* every value given to rolling, in order
    engine              \* a call of BMIEngine.calculate executed step by step

pipelineVars == <<file, stats, composite_history, today, result, obs, lastRun, ops>>
compositeVars == <<z_all, chosen, composed>>
functionVars == <<call, returned>>
rollingVars == <<rolling, added>>
engineVars == <<engine>>
offlineVars == <<compositeVars, functionVars, rollingVars, engineVars>>
vars == <<pipelineVars, offlineVars>>

EmptyStats ==
    [VPB |-> EmptyRollingStats, IPB |-> EmptyRollingStats,
     SBC |-> EmptyRollingStats, IPO |-> EmptyRollingStats]

NoResult ==
    [trade_date |-> 0, score |-> 0, band |-> "NONE", components |-> <<>>,
     raw_composite |-> 0, status |-> "NONE", excluded_features |-> <<>>]

NoObs ==
    [op |-> "none", features |-> FeatureSet(0, None, None, None, None),
     norm_stats |-> EmptyStats, rank_history |-> <<>>, loaded |-> <<>>,
     first |-> NoResult]

NoRun == [date |-> 0, features |-> FeatureSet(0, None, None, None, None),
          result |-> NoResult]

NotComposed == [done |-> FALSE, full |-> calculate_composite(NoFeatures),
                part |-> calculate_composite(NoFeatures), note |-> ""]

LastDate(f) ==
    IF f.rows = <<>> THEN 0
    ELSE CHOOSE d \in {f.rows[i].date : i \in 1..Len(f.rows)} :
            \A i \in 1..Len(f.rows) : f.rows[i].date <= d

InitPipeline ==
    /\ stats = EmptyStats
    /\ composite_history = <<>>
    /\ today = LastDate(file) + 1
    /\ result = NoResult
    /\ obs = NoObs
    /\ lastRun = NoRun
    /\ ops = 0

NoCall == [fn |-> "none"]

NotReturned == [done |-> FALSE]

\* nothing is composed
IdleComposite ==
    /\ z_all = NoFeatures
    /\ chosen = {}
    /\ composed = NotComposed

\* no function is called on its own
IdleFunctions ==
    /\ call = NoCall
    /\ returned = NotReturned

\* no RollingStats is used on its own
NothingAdded == [log |-> <<>>, calls |-> 0, by |-> "none"]

\* a RollingStats as constructed, no call made on it
IdleRolling ==
    /\ rolling = EmptyRollingStats
    /\ added = NothingAdded

\* BMIEngine.calculate is not executed step by step
IdleEngine == engine = [pc |-> "idle"]

Init ==
    /\ file \in InitialFiles
    /\ InitPipeline
    /\ IdleComposite
    /\ IdleFunctions
    /\ IdleRolling
    /\ IdleEngine

\* DailyPipeline.run(today) on the live pipeline
Run ==
    /\ ops < MaxOps
    /\ \E v \in DailyValues :
       \E features \in {FeatureSet(today, v[1], v[2], v[3], v[4])} :
       \E r \in {run(stats, composite_history, file, features)} :
       \E rerun \in {lastRun.date = today /\ lastRun.features = features} :
            /\ stats' = r.stats
            /\ composite_history' = r.history
            /\ file' = r.file
            /\ result' = r.result
            /\ obs' = [op |-> "run", features |-> features,
                       norm_stats |-> r.loaded.stats,
                       rank_history |-> r.loaded.history,
                       loaded |-> r.loaded.loaded,
                       first |-> IF rerun THEN lastRun.result ELSE NoResult]
            /\ lastRun' = IF rerun THEN lastRun
                          ELSE [date |-> today, features |-> features,
                                result |-> r.result]
    /\ ops' = ops + 1
    /\ UNCHANGED <<today, offlineVars>>

\* a new process: DailyPipeline() builds a pipeline with empty baselines
NewProcess ==
    /\ stats # EmptyStats \/ composite_history # <<>>
    /\ stats' = EmptyStats
    /\ composite_history' = <<>>
    /\ UNCHANGED <<file, today, result, obs, lastRun, ops, offlineVars>>

\* the next trading day, once today has been scored
NextDay ==
    /\ ops < MaxOps
    /\ result.trade_date = today
    /\ today' = today + 1
    /\ UNCHANGED <<file, stats, composite_history, result, obs, lastRun, ops,
                   offlineVars>>

Next == Run \/ NewProcess \/ NextDay

Spec == Init /\ [][Next]_vars

\* ------------------------------------------------------------------------
\* The command line run once per trading day: scripts/run_daily.py builds a
\* DailyPipeline in a new process, runs it for the day and exits.  The
\* history file starts absent and every day's fetch yields all four features.
\* ------------------------------------------------------------------------
\* the feature values of a day on which all four features are present
FullDailyValues ==
    {<<100, 80, 75, 40>>, <<50, 50, 50, 0>>, <<0, 10, 20, 0>>,
     <<60, 55, 52, 12>>, <<45, 52, 60, 20>>}

InitDaily ==
    /\ file = NoFile
    /\ InitPipeline
    /\ IdleComposite
    /\ IdleFunctions
    /\ IdleRolling
    /\ IdleEngine

\* main_async for trade date today: DailyPipeline() with empty baselines,
\* then run(today); the next invocation is for the next trading day
RunDaily ==
    /\ today <= MaxDays
    /\ \E v \in FullDailyValues :
       \E features \in {FeatureSet(today, v[1], v[2], v[3], v[4])} :
       \E r \in {run(EmptyStats, <<>>, file, features)} :
            /\ stats' = r.stats
            /\ composite_history' = r.history
            /\ file' = r.file
            /\ result' = r.result
            /\ obs' = [op |-> "run", features |-> features,
                       norm_stats |-> r.loaded.stats,
                       rank_history |-> r.loaded.history,
                       loaded |-> r.loaded.loaded,
                       first |-> NoResult]
            /\ lastRun' = [date |-> today, features |-> features,
                           result |-> r.result]
    /\ today' = today + 1
    /\ UNCHANGED <<ops, offlineVars>>

NextDaily == RunDaily

SpecDaily == InitDaily /\ [][NextDaily]_vars

\* the command is run every trading day
SpecDailyFair == SpecDaily /\ WF_vars(RunDaily)

\* ------------------------------------------------------------------------
\* calculate_composite as a function of its argument
\* ------------------------------------------------------------------------
InitComposite ==
    /\ file = NoFile
    /\ InitPipeline
    /\ z_all \in [VPB : ZValues, IPB : ZValues, SBC : ZValues, IPO : ZValues]
    /\ chosen \in SUBSET FeatureNameSet
    /\ composed = NotComposed
    /\ IdleFunctions
    /\ IdleRolling
    /\ IdleEngine

\* calculate_composite(z_all) and calculate_composite of the chosen features,
\* and the divergence note of the components of the chosen features
Compose ==
    /\ ~composed.done
    /\ composed' = [done |-> TRUE,
                    full |-> calculate_composite(z_all),
                    part |-> calculate_composite(Restrict(z_all, chosen)),
                    note |-> _format_divergence(
                        calculate_composite(Restrict(z_all, chosen)).components)]
    /\ UNCHANGED <<pipelineVars, z_all, chosen, functionVars, rollingVars, engineVars>>

NextComposite == Compose

SpecComposite == InitComposite /\ [][NextComposite]_vars

\* ------------------------------------------------------------------------
\* features/: the four feature calculators and FeatureAggregator.calculate.
\* Volumes and counts are integers, percentages are in percent, relative
\* volumes and feature values in hundredths.
\* ------------------------------------------------------------------------
\* variant: negative volumes are not refused
VpbAcceptsNegative(v_adv, v_dec) ==
    IF v_adv = None \/ v_dec = None THEN None
    ELSE IF v_adv + v_dec = 0 THEN None
    ELSE DivTrunc(v_adv * 100, v_adv + v_dec)

\* VolumeParticipationBreadth.calculate(v_adv, v_dec).value
vpb_calculate(v_adv, v_dec) ==
    IF v_adv = None \/ v_dec = None THEN None
    ELSE IF v_adv < 0 \/ v_dec < 0 THEN None
    ELSE IF v_adv + v_dec = 0 THEN None
    ELSE DivTrunc(v_adv * 100, v_adv + v_dec)

\* IssueParticipationBreadth.calculate(n_adv, n_dec).value
ipb_calculate(n_adv, n_dec) ==
    IF n_adv = None \/ n_dec = None THEN None
    ELSE IF n_adv < 0 \/ n_dec < 0 THEN None
    ELSE IF n_adv + n_dec = 0 THEN None
    ELSE DivTrunc(n_adv * 100, n_adv + n_dec)

\* StructuralBreadthConfirmation.calculate(pct_ma50, pct_ma200).value; with
\* one percentage missing the other is divided by 100 if it is truthy
\* (non-zero), and the range is validated only when both are present
sbc_calculate(pct_ma50, pct_ma200) ==
    IF pct_ma50 = None /\ pct_ma200 = None THEN None
    ELSE IF pct_ma50 = None
         THEN (IF pct_ma200 # 0 THEN pct_ma200 ELSE None)
    ELSE IF pct_ma200 = None
         THEN (IF pct_ma50 # 0 THEN pct_ma50 ELSE None)
    ELSE IF ~(0 <= pct_ma50 /\ pct_ma50 <= 100)
            \/ ~(0 <= pct_ma200 /\ pct_ma200 <= 100) THEN None
    ELSE DivTrunc(pct_ma50 + pct_ma200, 2)

\* sorted(values)[k - 1]
SortedAt(values, k) ==
    CHOOSE x \in {values[i] : i \in 1..Len(values)} :
        /\ Cardinality({i \in 1..Len(values) : values[i] < x}) < k
        /\ k <= Cardinality({i \in 1..Len(values) : values[i] <= x})

\* twice the universe median of calculate_simple
TwiceMedian(values) ==
    LET n == Len(values)
    IN IF n % 2 = 0
       THEN SortedAt(values, n \div 2) + SortedAt(values, n \div 2 + 1)
       ELSE 2 * SortedAt(values, n \div 2 + 1)

\* an optional list: None, or a list of items
NoList == [is_none |-> TRUE, items |-> <<>>]

ListOf(items) == [is_none |-> FALSE, items |-> items]

\* InstitutionalParticipationOverlay.calculate_simple(rel_vol_values,
\* threshold).value
calculate_simple(rel_vol_values, threshold) ==
    IF rel_vol_values.is_none THEN None
    ELSE IF Len(rel_vol_values.items) = 0 THEN None
    ELSE LET vals == rel_vol_values.items
             n == Len(vals)
             spike_count ==
                Cardinality({i \in 1..n :
                    /\ vals[i] > threshold
                    /\ 2 * vals[i] > TwiceMedian(vals)})
         IN DivTrunc(spike_count * 100, n)

\* variant: a stock at the universe median passes the second filter
SpikesWithTies(vals, thresholds, median2) ==
    {i \in 1..Len(vals) : vals[i] > thresholds[i] /\ 2 * vals[i] >= median2}

\* the dual filter of calculate: the indices of the stocks that spike;
\* median2 is twice the universe median
Spikes(vals, thresholds, median2) ==
    {i \in 1..Len(vals) : vals[i] > thresholds[i] /\ 2 * vals[i] > median2}

\* InstitutionalParticipationOverlay.calculate(rel_vol_values,
\* rel_vol_thresholds, universe_median).value
ipo_calculate(rel_vol_values, rel_vol_thresholds, universe_median) ==
    IF rel_vol_values.is_none THEN None
    ELSE IF Len(rel_vol_values.items) = 0 THEN None
    ELSE LET vals == rel_vol_values.items
             n == Len(vals)
             thresholds == IF rel_vol_thresholds.is_none
                           THEN Materialize([i \in 1..n |-> 200])
                           ELSE rel_vol_thresholds.items
         IN IF Len(thresholds) # n THEN None
            ELSE LET median2 == IF universe_median = None
                                THEN TwiceMedian(vals)
                                ELSE 2 * universe_median
                 IN DivTrunc(Cardinality(Spikes(vals, thresholds, median2)) * 100, n)

\* FeatureAggregator.calculate
aggregator_calculate(trade_date, v_adv, v_dec, n_adv, n_dec, pct_ma50, pct_ma200, rel_vol_values) ==
    FeatureSet(trade_date,
               vpb_calculate(v_adv, v_dec),
               ipb_calculate(n_adv, n_dec),
               sbc_calculate(pct_ma50, pct_ma200),
               calculate_simple(rel_vol_values, 200))

\* FeatureSet.universe_median_relvol as FeatureAggregator.calculate sets it,
\* doubled: universe_median_relvol or ipo_result.universe_median, where the
\* result of calculate_simple holds the median it computed (None without
\* stocks) and a supplied 0.0 is falsy
universe_median_relvol_of(rel_vol_values, universe_median_relvol) ==
    IF universe_median_relvol # None /\ universe_median_relvol # 0
    THEN 2 * universe_median_relvol
    ELSE IF rel_vol_values.is_none THEN None
    ELSE IF Len(rel_vol_values.items) = 0 THEN None
    ELSE TwiceMedian(rel_vol_values.items)

\* ------------------------------------------------------------------------
\* calculate_percentile and Band.from_score as functions of their arguments
\* ------------------------------------------------------------------------
\* a composite history of n values: k times a, then b
HistoryOf(n, k, a, b) == Materialize([i \in 1..n |-> IF i <= k THEN a ELSE b])

\* composites in the history, in thousandths
HistoryValues == {500 * k : k \in (-MaxC)..MaxC}

\* composite histories around the length at which the bootstrap ends
CompositeHistories ==
    {HistoryOf(n, k, a, b) :
        n \in (MIN_COMPOSITE_HISTORY - 1)..MaxHistLen, k \in 0..MaxHistLen,
        a \in HistoryValues, b \in HistoryValues}

\* composites to rank: the history values, between them and beyond them
RankedComposites == {250 * k : k \in (-2 * MaxC - 1)..(2 * MaxC + 1)}

PercentileCalls ==
    {[fn |-> "calculate_percentile", composite |-> c, history |-> h] :
        c \in RankedComposites, h \in CompositeHistories}

\* a composite history of n values rising from a in steps of 0.25
RampOf(n, a) == Materialize([i \in 1..n |-> a + 250 * (i - 1)])

\* the histories two composites are ranked against: rising ones, and ones
\* with one or two values apart from the rest
MonotoneHistories ==
    {RampOf(n, a) : n \in MIN_COMPOSITE_HISTORY..MaxHistLen, a \in HistoryValues}
        \cup {HistoryOf(MIN_COMPOSITE_HISTORY, k, a, b) :
                k \in 1..2, a \in HistoryValues, b \in HistoryValues}

\* two composites, the first not above the second, ranked against one history
MonotoneCalls ==
    {[fn |-> "calculate_percentile_twice", composite |-> c.lo, other |-> c.hi,
      history |-> h] :
        c \in {d \in [lo : RankedComposites, hi : RankedComposites] : d.lo <= d.hi},
        h \in MonotoneHistories}

\* scores: every whole point of the scale and the neighbours of the band
\* thresholds
BandScores ==
    {1000 * k : k \in 0..100}
        \cup {25000 - 1, 25000 + 1, 50000 - 1, 50000 + 1, 75000 - 1, 75000 + 1}

\* from_score is called on a pair of scores, to compare their bands
BandCalls ==
    {[fn |-> "from_score", score |-> s, other |-> t] :
        s \in BandScores, t \in BandScores}

\* the raw inputs of a day: missing, negative, zero, in range, out of range
Volumes == {None, -1, 0, 3}

\* (n_adv, n_dec)
IssueCounts ==
    {<<None, 5>>, <<5, None>>, <<-1, 5>>, <<5, -1>>, <<0, 0>>, <<0, 5>>, <<2, 5>>}

Percentages == {None, -10, 0, 40, 100, 150}

RelVols ==
    {NoList, ListOf(<<>>), ListOf(<<50, 120, 250, 300>>),
     ListOf(<<210, 220, 230>>), ListOf(<<90>>)}

\* a precomputed universe median given with rel_vol_values, in hundredths
SuppliedMedians == {120, 250, 300}

AggregatorCalls ==
    {[fn |-> "calculate", v_adv |-> a, v_dec |-> d, n |-> n,
      pct_ma50 |-> p, pct_ma200 |-> q, rel_vol_values |-> r,
      universe_median_relvol |-> None] :
        a \in Volumes, d \in Volumes, n \in IssueCounts,
        p \in Percentages, q \in Percentages, r \in RelVols}
    \cup
    {[fn |-> "calculate", v_adv |-> 3, v_dec |-> 3, n |-> <<2, 5>>,
      pct_ma50 |-> 40, pct_ma200 |-> 40, rel_vol_values |-> r,
      universe_median_relvol |-> m] :
        r \in RelVols, m \in SuppliedMedians}

\* the arguments of InstitutionalParticipationOverlay.calculate
IpoRelVols ==
    RelVols \cup {ListOf(<<250, 250, 250>>), ListOf(<<250, 250, 250, 250>>)}

IpoThresholds ==
    {NoList, ListOf(<<100>>), ListOf(<<100, 260, 100>>),
     ListOf(<<100, 100, 260, 260>>)}

IpoMedians == {None, 0, 220, 300}

IpoCalls ==
    {[fn |-> "ipo_calculate", rel_vol_values |-> r, rel_vol_thresholds |-> t,
      universe_median |-> m] :
        r \in IpoRelVols, t \in IpoThresholds, m \in IpoMedians}

InitFunctions ==
    /\ file = NoFile
    /\ InitPipeline
    /\ IdleComposite
    /\ IdleRolling
    /\ call \in PercentileCalls \cup MonotoneCalls \cup BandCalls
                \cup AggregatorCalls \cup IpoCalls
    /\ IdleEngine
    /\ returned = NotReturned

\* NormalizationPipeline.calculate_percentile(call.composite) on a pipeline
\* whose composite history is call.history
CallCalculatePercentile ==
    /\ call.fn = "calculate_percentile"
    /\ ~returned.done
    /\ returned' = [done |-> TRUE,
                    value |-> calculate_percentile(call.composite, call.history)]
    /\ UNCHANGED <<pipelineVars, compositeVars, call, rollingVars, engineVars>>

\* calculate_percentile of call.composite and of call.other on a pipeline whose
\* composite history is call.history (calculate_percentile does not change it)
CallCalculatePercentileTwice ==
    /\ call.fn = "calculate_percentile_twice"
    /\ ~returned.done
    /\ returned' = [done |-> TRUE,
                    value |-> calculate_percentile(call.composite, call.history),
                    other |-> calculate_percentile(call.other, call.history)]
    /\ UNCHANGED <<pipelineVars, compositeVars, call, rollingVars, engineVars>>

\* Band.from_score of the two scores
CallFromScore ==
    /\ call.fn = "from_score"
    /\ ~returned.done
    /\ returned' = [done |-> TRUE,
                    value |-> from_score(call.score),
                    other |-> from_score(call.other)]
    /\ UNCHANGED <<pipelineVars, compositeVars, call, rollingVars, engineVars>>

\* FeatureAggregator.calculate on the raw inputs of the call
CallAggregator ==
    /\ call.fn = "calculate"
    /\ ~returned.done
    /\ returned' = [done |-> TRUE,
                    value |-> aggregator_calculate(1, call.v_adv, call.v_dec,
                                call.n[1], call.n[2], call.pct_ma50,
                                call.pct_ma200, call.rel_vol_values),
                    universe_median2 |-> universe_median_relvol_of(
                                call.rel_vol_values, call.universe_median_relvol)]
    /\ UNCHANGED <<pipelineVars, compositeVars, call, rollingVars, engineVars>>

\* InstitutionalParticipationOverlay.calculate on the arguments of the call
CallIpo ==
    /\ call.fn = "ipo_calculate"
    /\ ~returned.done
    /\ returned' = [done |-> TRUE,
                    value |-> ipo_calculate(call.rel_vol_values,
                                call.rel_vol_thresholds, call.universe_median)]
    /\ UNCHANGED <<pipelineVars, compositeVars, call, rollingVars, engineVars>>

NextFunctions ==
    \/ CallCalculatePercentile
    \/ CallCalculatePercentileTwice
    \/ CallFromScore
    \/ CallAggregator
    \/ CallIpo

SpecFunctions == InitFunctions /\ [][NextFunctions]_vars

\* ------------------------------------------------------------------------
\* A RollingStats under add, add_bulk and load_from_history.  rolling is the
\* RollingStats of feature VPB; added logs every (value, date) passed to
\* add, the number of calls and the last method called.
\* ------------------------------------------------------------------------
\* the values a caller passes to add, in hundredths
RollingValues == {25, NaN}

\* the newest date stored, 0 in an empty buffer
Newest(rs) == IF rs.dates = <<>> THEN 0 ELSE rs.dates[Len(rs.dates)]

\* the dates a caller passes to add: the next day, or an earlier day
RollingDates(rs) ==
    {Newest(rs) + 1} \cup (IF Newest(rs) > 1 THEN {Newest(rs) - 1} ELSE {})

BulkLens == {2, ROLLING_WINDOW - 1, ROLLING_WINDOW + 1}

BulkValues(n) == Materialize([i \in 1..n |-> (i * 7) % 100])

BulkDates(n, after) == Materialize([i \in 1..n |-> after + i])

\* the records load_from_history is given
RollingHistories ==
    {to_records(f.cols, f.rows) :
        f \in {HistoryFile(9, "bare"), HistoryFile(15, "varied"),
               HistoryFile(ROLLING_WINDOW + 1, "varied")}}

\* the (value, date) pairs of a call, as log entries
Pairs(values, dates) ==
    Materialize([i \in 1..Min2(Len(values), Len(dates)) |->
                    [value |-> values[i], date |-> dates[i]]])

Logged(pairs, by) ==
    [log |-> added.log \o pairs, calls |-> added.calls + 1, by |-> by]

InitRolling ==
    /\ file = NoFile
    /\ InitPipeline
    /\ IdleComposite
    /\ IdleFunctions
    /\ IdleRolling
    /\ IdleEngine

\* RollingStats.add(value, trade_date)
Add ==
    /\ added.calls < MaxCalls
    /\ \E v \in RollingValues, d \in RollingDates(rolling) :
         /\ rolling' = add(rolling, v, d)
         /\ added' = Logged(<<[value |-> v, date |-> d]>>, "add")
    /\ UNCHANGED <<pipelineVars, compositeVars, functionVars, engineVars>>

\* RollingStats.add_bulk(values, dates); dates may be longer than values
AddBulk ==
    /\ added.calls < MaxCalls
    /\ \E n \in BulkLens, m \in 0..1 :
         \E vs \in {BulkValues(n)}, ds \in {BulkDates(n + m, Newest(rolling))} :
             /\ rolling' = add_bulk(rolling, vs, ds)
             /\ added' = Logged(Pairs(vs, ds), "add_bulk")
    /\ UNCHANGED <<pipelineVars, compositeVars, functionVars, engineVars>>

\* MultiFeatureRollingCalculator.load_from_history(history) on the
\* calculator that holds rolling as the stats of VPB
LoadFromHistory ==
    /\ added.calls < MaxCalls
    /\ \E history \in RollingHistories :
         \E given \in {SelectSeq(history,
                                 LAMBDA r : r.features.VPB # None)} :
             /\ rolling' = load_from_history(
                               [EmptyStats EXCEPT !.VPB = rolling], history).VPB
             /\ added' = Logged(
                    Materialize([i \in 1..Len(given) |->
                        [value |-> given[i].features.VPB,
                         date |-> given[i].date]]),
                    "load_from_history")
    /\ UNCHANGED <<pipelineVars, compositeVars, functionVars, engineVars>>

NextRolling == Add \/ AddBulk \/ LoadFromHistory

SpecRolling == InitRolling /\ [][NextRolling]_vars

\* ------------------------------------------------------------------------
\* One call of BMIEngine.calculate on a pipeline whose history was loaded
\* ------------------------------------------------------------------------
Generators == {"none", "generator", "raising"}

\* the calls: the pipeline as load_history leaves it on a history file, the
\* features of the day after the file's last date
EngineCalls ==
    {EngineCall(g, FeatureSet(LastDate(f) + 1, v[1], v[2], v[3], v[4]),
                load_history(EmptyStats, <<>>, f, None).stats,
                load_history(EmptyStats, <<>>, f, None).history) :
        g \in Generators, f \in InitialFiles, v \in DailyValues}

InitEngine ==
    /\ file = NoFile
    /\ InitPipeline
    /\ IdleComposite
    /\ IdleFunctions
    /\ IdleRolling
    /\ engine \in EngineCalls

\* step 1: z_scores, excluded, status = self.pipeline.normalize(features)
EngineNormalize ==
    /\ engine.pc = "normalize"
    /\ \E norm \in {normalize(engine.stats, engine.features)} :
         engine' = [engine EXCEPT !.pc = "composite",
                                  !.z_scores = norm.z_scores,
                                  !.excluded = norm.excluded,
                                  !.status = norm.status]
    /\ UNCHANGED <<pipelineVars, compositeVars, functionVars, rollingVars>>

\* step 2: calculate_composite and _enrich_components
EngineComposite ==
    /\ engine.pc = "composite"
    /\ \E comp \in {calculate_composite(engine.z_scores)} :
         engine' = [engine EXCEPT !.pc = "percentile",
                                  !.composite = comp.composite,
                                  !.components = _enrich_components(
                                        comp.components, engine.features)]
    /\ UNCHANGED <<pipelineVars, compositeVars, functionVars, rollingVars>>

\* step 3: aurora_score = self.pipeline.calculate_percentile(composite)
EnginePercentile ==
    /\ engine.pc = "percentile"
    /\ engine' = [engine EXCEPT !.pc = "band",
                                !.score = calculate_percentile(engine.composite,
                                                               engine.history)]
    /\ UNCHANGED <<pipelineVars, compositeVars, functionVars, rollingVars>>

\* step 4: band = Band.from_score(aurora_score)
EngineBand ==
    /\ engine.pc = "band"
    /\ engine' = [engine EXCEPT !.pc = "explain",
                                !.band = from_score(engine.score)]
    /\ UNCHANGED <<pipelineVars, compositeVars, functionVars, rollingVars>>

EngineExplain ==
    /\ engine.pc = "explain"
    /\ engine' = engine_explain(engine)
    /\ UNCHANGED <<pipelineVars, compositeVars, functionVars, rollingVars>>

EngineDivergence ==
    /\ engine.pc = "divergence"
    /\ engine' = engine_divergence(engine)
    /\ UNCHANGED <<pipelineVars, compositeVars, functionVars, rollingVars>>

EngineAppend ==
    /\ engine.pc = "append"
    /\ engine' = engine_append(engine)
    /\ UNCHANGED <<pipelineVars, compositeVars, functionVars, rollingVars>>

NextEngine ==
    \/ EngineNormalize
    \/ EngineComposite
    \/ EnginePercentile
    \/ EngineBand
    \/ EngineExplain
    \/ EngineDivergence
    \/ EngineAppend

SpecEngine == InitEngine /\ [][NextEngine]_vars

\* ------------------------------------------------------------------------
\* Properties
\* ------------------------------------------------------------------------
Scored == obs.op = "run"

\* the trade date of the last run
RunDate == obs.features.trade_date

\* the last run found a value of F and a baseline of F with enough observations
Given(F) ==
    /\ feature_values(obs.features)[F] # None
    /\ Len(obs.norm_stats[F].values) >= MIN_OBSERVATIONS

ComponentNames == {result.components[i].name : i \in 1..Len(result.components)}

ExcludedNames ==
    {result.excluded_features[i] : i \in 1..Len(result.excluded_features)}

\* C1: every score a run returns lies in [0, 100], on the bootstrap path,
\* the percentile path and the blended edges
C1_ScoreInRange == Scored => (0 <= result.score /\ result.score <= PCT100)

C1_Witness ==
    /\ Scored
    /\ percentile_path(result.raw_composite, obs.rank_history) = "blend_high"

\* C2: a run for date D loads only rows dated strictly before D into the
\* baselines and the composite history it normalises and ranks D against
C2_LoadedStrictlyEarlier ==
    Scored =>
        /\ \A i \in 1..Len(obs.loaded) : obs.loaded[i] < RunDate
        /\ \A F \in FeatureNameSet :
             \A i \in 1..Len(obs.norm_stats[F].dates) :
                obs.norm_stats[F].dates[i] < RunDate

\* C3: a second run for the same date with the same inputs returns the
\* result of the first run, in a fresh process or on the same instance
C3_RerunSameResult ==
    (Scored /\ obs.first # NoResult) =>
        /\ result.score = obs.first.score
        /\ result.band = obs.first.band
        /\ result.raw_composite = obs.first.raw_composite
        /\ result.status = obs.first.status
        /\ result.excluded_features = obs.first.excluded_features
        /\ result.components = obs.first.components

\* C4: after a run has saved its row, the baselines and the composite
\* history in memory are what a fresh pipeline loads from the history file
C4_MemoryDerivable ==
    (Scored /\ composite_history # <<>>) =>
        LET fresh == load_history(EmptyStats, <<>>, file, None)
        IN /\ fresh.stats = stats
           /\ fresh.history = composite_history

\* C5: the z-score of every component is (value - mean) / std of the
\* feature's baseline (truncated to a tenth) when std > 0, and 0 when
\* std = 0, whatever its magnitude
C5_ZscoreUnclipped ==
    Scored =>
        \A i \in 1..Len(result.components) :
            LET c == result.components[i]
                b == obs.norm_stats[c.name].values
                m == NpMean(b, 100)
                s == NpStd(b, 100, 1)
                d == feature_values(obs.features)[c.name] * 100 - m
            IN /\ s = 0 => c.zscore = 0
               /\ s > 0 =>
                    /\ Abs(c.zscore) * s <= Abs(d) * 10
                    /\ Abs(d) * 10 < (Abs(c.zscore) + 1) * s
                    /\ c.zscore > 0 => d > 0
                    /\ c.zscore < 0 => d < 0

C5_Witness ==
    /\ Scored
    /\ \E i \in 1..Len(result.components) :
          LET c == result.components[i]
              b == obs.norm_stats[c.name].values
          IN /\ NpMean(b, 100) = 5000
             /\ NpStd(b, 100, 1) = 500
             /\ feature_values(obs.features)[c.name] = 100
             /\ c.zscore = 100

\* the place of a feature in the order VPB, IPB, SBC, IPO
Place(F) == CHOOSE k \in 1..4 : FEATURE_NAMES[k] = F

\* out is what calculate_composite has to return for the z-scores z_all of
\* the features in S
ComposedRight(out, S) ==
    LET Term(F) == IF F \in S THEN WEIGHTS[F] * z_all[F] ELSE 0
    IN /\ out.composite = Term("VPB") + Term("IPB") + Term("SBC") + Term("IPO")
       /\ Len(out.components) = Cardinality(S)
       /\ \A i \in 1..Len(out.components) :
            /\ out.components[i].name \in S
            /\ out.components[i].weight = WEIGHTS[out.components[i].name]
            /\ out.components[i].zscore = z_all[out.components[i].name]
            /\ out.components[i].contribution =
                 out.components[i].weight * out.components[i].zscore
       /\ \A i, j \in 1..Len(out.components) :
            i < j => Place(out.components[i].name) < Place(out.components[j].name)

\* C6: calculate_composite returns the sum of weight * z over the features
\* present, not divided by the weights used, and one component per present
\* feature in the order VPB, IPB, SBC, IPO with contribution = weight * z
C6_CompositeIsWeightedSum ==
    composed.done =>
        /\ ComposedRight(composed.full, FeatureNameSet)
        /\ ComposedRight(composed.part, chosen)

C6_Witness ==
    /\ composed.done
    /\ chosen = {"IPB", "IPO"}
    /\ z_all = [VPB |-> 10, IPB |-> -5, SBC |-> 10, IPO |-> 10]
    /\ composed.part.composite = 75

SameSign ==
    \/ \A F \in FeatureNameSet : z_all[F] >= 0
    \/ \A F \in FeatureNameSet : z_all[F] <= 0

C8_NormalizePartition ==
    Scored =>
        /\ \A F \in FeatureNameSet :
             /\ F \in ComponentNames <=> Given(F)
             /\ F \in ExcludedNames <=> ~Given(F)
        /\ Len(result.components) = Cardinality(ComponentNames)
        /\ Len(result.excluded_features) = Cardinality(ExcludedNames)
        /\ result.status = "COMPLETE" <=> ExcludedNames = {}
        /\ result.status = "INSUFFICIENT" <=> ExcludedNames = FeatureNameSet
        /\ result.status = "PARTIAL" <=>
             (ExcludedNames # {} /\ ExcludedNames # FeatureNameSet)

C8_Witness ==
    /\ Scored
    /\ result.status = "PARTIAL"
    /\ \E F \in ComponentNames : Len(obs.norm_stats[F].values) = MIN_OBSERVATIONS

\* no baseline had 21 observations when the last run normalised
AllBelowMinimum ==
    \A F \in FeatureNameSet : Len(obs.norm_stats[F].values) < MIN_OBSERVATIONS

\* C9: a day scored while every baseline has fewer than 21 observations is
\* INSUFFICIENT with raw composite 0 and takes the bootstrap sigmoid path
C9_InsufficientTakesBootstrap ==
    (Scored /\ AllBelowMinimum) =>
        /\ result.status = "INSUFFICIENT"
        /\ result.raw_composite = 0
        /\ percentile_path(result.raw_composite, obs.rank_history) = "bootstrap"

\* the score of composite 0 ranked against the history h of 10 or more
\* composites: 100 minus the share of h below 0, blended at the edges when
\* the composites of h are not all equal
RankedScoreOfZero(score, h) ==
    LET below == Cardinality({i \in 1..Len(h) : h[i] < 0})
        pct == (below * PCT100) \div Len(h)
        allEqual == \A i \in 1..Len(h) : h[i] = h[1]
    IN IF allEqual \/ (1000 < pct /\ pct < 99000) THEN score = PCT100 - pct
       ELSE IF pct <= 1000 THEN 75000 <= score /\ score <= 99000
       ELSE 1000 <= score /\ score <= 25000

\* C9 as the code has it: such a day is INSUFFICIENT with raw composite 0;
\* the bootstrap sigmoid path (score 50) is taken when the composite history
\* holds fewer than 10 values, otherwise 0 is ranked against that history
C9_InsufficientBootstrapWhenShort ==
    (Scored /\ AllBelowMinimum) =>
        /\ result.status = "INSUFFICIENT"
        /\ result.raw_composite = 0
        /\ Len(obs.rank_history) < 10 => result.score = 50000
        /\ Len(obs.rank_history) >= 10 =>
             RankedScoreOfZero(result.score, obs.rank_history)

C9_Witness ==
    /\ Scored
    /\ AllBelowMinimum
    /\ Len(obs.rank_history) >= 10
    /\ result.status = "INSUFFICIENT"

\* the band of a score, by the thresholds 25, 50, 75
BandOf(score) ==
    CASE score <= 25000 -> "GREEN"
      [] score > 25000 /\ score <= 50000 -> "LIGHT_GREEN"
      [] score > 50000 /\ score <= 75000 -> "YELLOW"
      [] OTHER -> "RED"

\* C10: with all four features excluded a run still returns a result:
\* INSUFFICIENT, raw composite 0, no components, all four names excluded,
\* and the score and band the percentile bounder gives composite 0
C10_AllExcludedStillScored ==
    (Scored /\ \A F \in FeatureNameSet : ~Given(F)) =>
        /\ result.trade_date = RunDate
        /\ result.status = "INSUFFICIENT"
        /\ result.raw_composite = 0
        /\ result.components = <<>>
        /\ result.excluded_features = FEATURE_NAMES
        /\ result.score = calculate_percentile(0, obs.rank_history)
        /\ result.band = BandOf(result.score)

C10_Witness ==
    /\ Scored
    /\ \A F \in FeatureNameSet :
         /\ feature_values(obs.features)[F] = None
         /\ Len(obs.norm_stats[F].values) >= MIN_OBSERVATIONS
    /\ result.status = "INSUFFICIENT"
    /\ result.score # 50000

\* C11: on the percentile path (10 or more composites in the history) the
\* score is never an end of the scale, neither 0 nor 100
C11_NeverHardClamped ==
    (Scored /\ Len(obs.rank_history) >= MIN_COMPOSITE_HISTORY) =>
        (result.score # 0 /\ result.score # PCT100)

\* calculate_percentile was called on its own and has returned
Ranked == call.fn = "calculate_percentile" /\ returned.done

\* the strict-less percentile of the composite of the call in its history
StrictLess ==
    (Cardinality({i \in 1..Len(call.history) : call.history[i] < call.composite})
        * PCT100) \div Len(call.history)

\* the history of the call has a positive standard deviation
HistorySpread ==
    \E i, j \in 1..Len(call.history) : call.history[i] # call.history[j]

\* the call ranks on the percentile path
PercentilePath == Ranked /\ Len(call.history) >= MIN_COMPOSITE_HISTORY

LowTail == PercentilePath /\ HistorySpread /\ StrictLess <= 1000

HighTail == PercentilePath /\ HistorySpread /\ StrictLess >= 99000

\* the sigmoid percentile of the composite of the call in its history
SigmoidPct ==
    sigmoid_scale(call.composite, NpMean(call.history, 1), 1,
                  NpStd(call.history, 1, 0))

\* C12: a score blended at the low tail is in the RED band, a score blended
\* at the high tail is in the GREEN band
C12_BlendInTails ==
    /\ LowTail => BandOf(returned.value) = "RED"
    /\ HighTail => BandOf(returned.value) = "GREEN"

\* C13: with a history of positive std a percentile p <= 1 becomes
\* max(1, min(25, p_sig)) and p >= 99 becomes min(99, max(75, p_sig)), so the
\* score is in [75, 99] and [1, 25]; for 1 < p < 99 the score is 100 - p
C13_EdgeBlend ==
    /\ LowTail =>
         /\ returned.value = PCT100 - Max2(1000, Min2(25000, SigmoidPct))
         /\ 75000 <= returned.value /\ returned.value <= 99000
    /\ HighTail =>
         /\ returned.value = PCT100 - Min2(99000, Max2(75000, SigmoidPct))
         /\ 1000 <= returned.value /\ returned.value <= 25000
    /\ (PercentilePath /\ 1000 < StrictLess /\ StrictLess < 99000) =>
         returned.value = PCT100 - StrictLess

C13_Witness ==
    /\ LowTail
    /\ 75000 < returned.value
    /\ returned.value < 99000

\* C14: the bootstrap sigmoid is taken exactly with fewer than 10 composites
\* in the history; with 10 or more the composite is ranked by the strict-less
\* percentile, which does not count history values equal to it
C14_BootstrapBelowTen ==
    Ranked =>
        /\ Len(call.history) < 10 =>
             returned.value = PCT100 - sigmoid_scale(call.composite, 0, 1, 2000)
        /\ (Len(call.history) >= 10 /\ ~LowTail /\ ~HighTail) =>
             returned.value = PCT100 - StrictLess
        /\ (Len(call.history) >= 10 /\ (LowTail \/ HighTail)) =>
             (1000 <= returned.value /\ returned.value <= 99000)

C14_Witness ==
    /\ Ranked
    /\ Len(call.history) = 10
    /\ \E i \in 1..10 : call.history[i] = call.composite
    /\ \E i \in 1..10 : call.history[i] < call.composite
    /\ returned.value = PCT100 - StrictLess
    /\ returned.value # PCT100 - sigmoid_scale(call.composite, 0, 1, 2000)

\* Band.from_score was called on its own and has returned
Banded == call.fn = "from_score" /\ returned.done

\* the place of a band on the scale from healthy to poor
BandRank(band) ==
    CASE band = "GREEN" -> 0
      [] band = "LIGHT_GREEN" -> 1
      [] band = "YELLOW" -> 2
      [] band = "RED" -> 3

\* C15: from_score returns a band for every score in [0, 100]: GREEN iff
\* score <= 25, LIGHT_GREEN iff 25 < score <= 50, YELLOW iff 50 < score <= 75,
\* RED iff score > 75; the band does not decrease when the score increases
C15_BandThresholds ==
    Banded =>
        /\ returned.value \in {"GREEN", "LIGHT_GREEN", "YELLOW", "RED"}
        /\ returned.value = "GREEN" <=> call.score <= 25000
        /\ returned.value = "LIGHT_GREEN" <=>
             (25000 < call.score /\ call.score <= 50000)
        /\ returned.value = "YELLOW" <=>
             (50000 < call.score /\ call.score <= 75000)
        /\ returned.value = "RED" <=> call.score > 75000
        /\ call.score <= call.other =>
             BandRank(returned.value) <= BandRank(returned.other)

C15_Witness ==
    /\ Banded
    /\ call.score = 25000 /\ returned.value = "GREEN"
    /\ call.other = 25000 + 1 /\ returned.other = "LIGHT_GREEN"

\* the values passed to add so far, oldest first
AddedValues == Materialize([i \in 1..Len(added.log) |-> added.log[i].value])

\* C16: after any calls of add, add_bulk and load_from_history the buffer
\* holds at most W values, as many dates as values, and exactly the last
\* min(n, W) of the n values added, in the order they were added
C16_WindowHoldsLastValues ==
    LET n == Len(added.log)
        kept == Min2(n, ROLLING_WINDOW)
    IN /\ count(rolling) <= ROLLING_WINDOW
       /\ Len(rolling.values) = Len(rolling.dates)
       /\ rolling.values = SubSeq(AddedValues, n - kept + 1, n)

C16_Witness ==
    /\ added.by = "add"
    /\ Len(added.log) > ROLLING_WINDOW
    /\ count(rolling) = ROLLING_WINDOW
    /\ rolling.values[1] = added.log[Len(added.log) - ROLLING_WINDOW + 1].value
    /\ rolling.values[ROLLING_WINDOW] = added.log[Len(added.log)].value

\* C17: the composite history holds at most W values, in memory after every
\* step and where calculate_percentile reads it
C17_CompositeHistoryBounded ==
    /\ Len(composite_history) <= ROLLING_WINDOW
    /\ Scored => Len(obs.rank_history) <= ROLLING_WINDOW

\* the baselines in memory are those BMIEngine.calculate of the last run left
\* (a new process empties the composite history, a run never does)
AfterCalculate == Scored /\ composite_history # <<>>

\* C18: after calculate for a day D the newest date of each of the four
\* baselines is D
C18_NewestDateIsRunDate ==
    AfterCalculate => \A F \in FeatureNameSet : Newest(stats[F]) = RunDate

\* C18 as the code has it: the baseline of a feature whose value is present
\* ends with (D, value); the baseline of an absent feature is as it was
\* before calculate
C18_NewestDateOfPresentIsRunDate ==
    AfterCalculate =>
        \A F \in FeatureNameSet :
            LET value == feature_values(obs.features)[F]
                n == Len(stats[F].values)
            IN IF value # None
               THEN /\ n > 0
                    /\ Newest(stats[F]) = RunDate
                    /\ stats[F].values[n] = value
               ELSE stats[F] = obs.norm_stats[F]

C18_Witness ==
    /\ AfterCalculate
    /\ obs.features.vpb # None
    /\ Newest(stats.VPB) = RunDate
    /\ obs.features.sbc = None
    /\ stats.SBC.dates # <<>>
    /\ Newest(stats.SBC) < RunDate

\* C19: an observation dated before the newest stored date, or with a
\* non-finite value, is not stored: the stored dates never decrease and
\* every stored value is finite
C19_MisuseRejected ==
    /\ \A i \in 1..(Len(rolling.dates) - 1) :
         rolling.dates[i] <= rolling.dates[i + 1]
    /\ \A i \in 1..Len(rolling.values) : rolling.values[i] # NaN

\* a feature value is absent or lies in [0, 1]
InUnitRange(v) == v = None \/ (0 <= v /\ v <= 100)

\* C20: every feature value FeatureAggregator.calculate produces is absent
\* or in [0, 1], whatever the raw inputs
C20_FeaturesInUnitRange ==
    (call.fn = "calculate" /\ returned.done) =>
        /\ InUnitRange(returned.value.vpb)
        /\ InUnitRange(returned.value.ipb)
        /\ InUnitRange(returned.value.sbc)
        /\ InUnitRange(returned.value.ipo)

\* FeatureAggregator.calculate was called on its own and has returned
Aggregated == call.fn = "calculate" /\ returned.done

\* a percentage is present and in [0, 100]
InPct(p) == p # None /\ 0 <= p /\ p <= 100

\* a percentage is present and outside [0, 100]
OutOfPct(p) == p # None /\ ~(0 <= p /\ p <= 100)

\* C21: SBC is the mean of the two percentages over 100 when both are in
\* [0, 100], the one present percentage over 100 when only one is given and
\* in [0, 100] (0 and 100 included), and absent iff both are missing or a
\* present one is out of range
C21_SbcDefinition ==
    Aggregated =>
        LET p == call.pct_ma50
            q == call.pct_ma200
            sbc == returned.value.sbc
        IN /\ (InPct(p) /\ InPct(q)) => 2 * sbc = p + q
           /\ (InPct(p) /\ q = None) => sbc = p
           /\ (p = None /\ InPct(q)) => sbc = q
           /\ sbc = None <=>
                ((p = None /\ q = None) \/ OutOfPct(p) \/ OutOfPct(q))

\* value is the fraction num / den in hundredths, truncated
IsRatio(value, num, den) ==
    /\ value * den <= 100 * num
    /\ 100 * num < (value + 1) * den

\* adv / (adv + dec), in [0, 1], for present non-negative inputs of positive
\* sum; absent exactly when an input is missing or negative or the sum is 0
BreadthRatio(value, adv, dec) ==
    LET refused == \/ adv = None \/ dec = None
                   \/ adv < 0 \/ dec < 0
                   \/ adv + dec = 0
    IN /\ value = None <=> refused
       /\ ~refused => /\ IsRatio(value, adv, adv + dec)
                      /\ 0 <= value /\ value <= 100

\* C23: VPB and IPB are adv / (adv + dec) in [0, 1] for present non-negative
\* inputs of positive sum, and absent exactly when an input is missing, an
\* input is negative or the sum is zero
C23_BreadthRatios ==
    Aggregated =>
        /\ BreadthRatio(returned.value.vpb, call.v_adv, call.v_dec)
        /\ BreadthRatio(returned.value.ipb, call.n[1], call.n[2])

C23_Witness ==
    /\ Aggregated
    /\ call.v_adv = 3 /\ call.v_dec = 0 /\ returned.value.vpb = 100
    /\ call.n = <<2, 5>> /\ returned.value.ipb = 28

\* InstitutionalParticipationOverlay.calculate was called and has returned
IpoReturned == call.fn = "ipo_calculate" /\ returned.done

\* the number of stocks of the call
IpoN == IF call.rel_vol_values.is_none THEN 0 ELSE Len(call.rel_vol_values.items)

\* the threshold of stock i of the call
IpoThreshold(i) ==
    IF call.rel_vol_thresholds.is_none THEN 200
    ELSE call.rel_vol_thresholds.items[i]

\* the thresholds of the call fit its stocks
IpoThresholdsFit ==
    call.rel_vol_thresholds.is_none \/ Len(call.rel_vol_thresholds.items) = IpoN

\* stock i of the call is above twice-the-median m2, strictly
IpoSpikeCount ==
    LET rv == call.rel_vol_values.items
        m2 == IF call.universe_median # None THEN 2 * call.universe_median
              ELSE TwiceMedian(rv)
    IN Cardinality({i \in 1..IpoN :
                        rv[i] > IpoThreshold(i) /\ rv[i] + rv[i] > m2})

\* C22: calculate returns spike count / n, a stock spiking iff it is
\* strictly above its threshold (2.0 when none is given) and strictly above
\* the universe median, and returns an absent value iff n = 0
C22_IpoDualFilter ==
    IpoReturned =>
        /\ returned.value = None <=> IpoN = 0
        /\ IpoN > 0 => IsRatio(returned.value, IpoSpikeCount, IpoN)

\* C22 as the code has it: the value is also absent when a list of
\* thresholds of another length than the list of stocks is given
C22_IpoDualFilterFittingThresholds ==
    IpoReturned =>
        /\ returned.value = None <=> (IpoN = 0 \/ ~IpoThresholdsFit)
        /\ (IpoN > 0 /\ IpoThresholdsFit) =>
             IsRatio(returned.value, IpoSpikeCount, IpoN)

C22_Witness ==
    /\ IpoReturned
    /\ call.rel_vol_values = ListOf(<<250, 250, 250>>)
    /\ call.rel_vol_thresholds.is_none
    /\ call.universe_median = None
    /\ returned.value = 0

\* C24: the divergence note is emitted iff VPB and IPB are both components
\* and |z_VPB - z_IPB| > 1.0: the narrow-leadership text for a positive
\* difference, the broad-but-weak text for a negative one, and no note when
\* the difference is exactly +1.0 or -1.0
C24_DivergenceNote ==
    composed.done =>
        LET both == {"VPB", "IPB"} \subseteq chosen
            d == z_all.VPB - z_all.IPB
        IN composed.note = IF both /\ d > 10 THEN "narrow_leadership"
                           ELSE IF both /\ d < -10 THEN "broad_weak"
                           ELSE ""

\* baseline rs followed by the observation (value, trade_date), within W
Observed(rs, value, trade_date) ==
    LET vs == rs.values \o <<value>>
        ds == rs.dates \o <<trade_date>>
        drop == IF Len(vs) > ROLLING_WINDOW THEN 1 ELSE 0
    IN [values |-> SubSeq(vs, 1 + drop, Len(vs)),
        dates  |-> SubSeq(ds, 1 + drop, Len(ds))]

\* C25: within one calculate the baselines and the composite history stay
\* as given until score, band and explanation are computed, and also when
\* the explanation generator raises; the only change is the final append of
\* the day's present raw values and the day's raw composite
C25_MutationOnlyAtEnd ==
    /\ engine.pc \in {"normalize", "composite", "percentile", "band", "explain",
                      "divergence", "append", "raised"} =>
         /\ engine.stats = engine.given.stats
         /\ engine.history = engine.given.history
    /\ engine.pc = "returned" =>
         /\ \A F \in FeatureNameSet :
              LET value == feature_values(engine.features)[F]
              IN engine.stats[F] =
                    IF value = None THEN engine.given.stats[F]
                    ELSE Observed(engine.given.stats[F], value,
                                  engine.features.trade_date)
         /\ LET h == engine.given.history \o <<engine.composite>>
                drop == IF Len(h) > ROLLING_WINDOW THEN Len(h) - ROLLING_WINDOW
                        ELSE 0
            IN engine.history = SubSeq(h, 1 + drop, Len(h))

C25_Witness ==
    /\ engine.pc = "raised"
    /\ engine.band # "NONE"
    /\ engine.components # <<>>
    /\ engine.stats = engine.given.stats
    /\ engine.stats.VPB.values # <<>>

\* the divergence diagnostic of the call flagged the divergence
DivergenceFlagged ==
    /\ engine.explanation # <<>>
    /\ engine.explanation[Len(engine.explanation)].kind = "appended"

\* C26: the divergence step changes nothing but the explanation: score,
\* band, raw composite, status, excluded features, components, and the
\* features, baselines and composite history the append works on
C26_DivergenceObservational ==
    [][engine.pc = "divergence" =>
         /\ engine'.score = engine.score
         /\ engine'.band = engine.band
         /\ engine'.composite = engine.composite
         /\ engine'.status = engine.status
         /\ engine'.excluded = engine.excluded
         /\ engine'.components = engine.components
         /\ engine'.features = engine.features
         /\ engine'.stats = engine.stats
         /\ engine'.history = engine.history]_vars

C26_Witness ==
    /\ engine.pc = "append"
    /\ DivergenceFlagged
    /\ engine.band \in {"GREEN", "LIGHT_GREEN", "YELLOW", "RED"}

\* the positions of the lines of a kind in the explanation
LinesOf(kinds) ==
    {i \in 1..Len(engine.explanation) : engine.explanation[i].kind \in kinds}

\* C27: with the ExplanationGenerator the explanation is only the blocks
\* status line, primary drivers, divergence note, warnings, in this order,
\* each after one blank line; a divergence text appears at most once and
\* never after the warnings
C27_ExplanationBlocks ==
    (engine.pc \in {"append", "returned"} /\ engine.generator = "generator") =>
        /\ \A i \in 1..Len(engine.explanation) :
             engine.explanation[i].kind \in
                {"status", "blank", "drivers_header", "driver", "note",
                 "warning", "excluded"}
        /\ Cardinality(LinesOf({"note", "appended"})) <= 1
        /\ \A i \in LinesOf({"note", "appended"}) :
             \A j \in LinesOf({"warning", "excluded"}) : i < j
        /\ \A i \in LinesOf({"status"}) : \A j \in LinesOf({"driver"}) : i < j
        /\ \A i \in LinesOf({"driver"}) : \A j \in LinesOf({"note"}) : i < j
        /\ \A i \in LinesOf({"blank"}) :
             /\ i > 1 /\ i < Len(engine.explanation)
             /\ engine.explanation[i + 1].kind \in
                    {"drivers_header", "note", "warning", "excluded"}

\* C28: with a precomputed universe median supplied, the IPO value of the
\* FeatureSet is the fraction of stocks above 2.0 and above that median, and
\* FeatureSet.universe_median_relvol is the median the value was computed with
C28_SuppliedMedianUsed ==
    (Aggregated /\ call.universe_median_relvol # None
        /\ ~call.rel_vol_values.is_none /\ call.rel_vol_values.items # <<>>) =>
        LET rv == call.rel_vol_values.items
            m == call.universe_median_relvol
        IN /\ IsRatio(returned.value.ipo,
                      Cardinality({i \in 1..Len(rv) : rv[i] > 200 /\ rv[i] > m}),
                      Len(rv))
           /\ returned.universe_median2 = 2 * m

\* C29: against one composite history, of two composites the one that is not
\* higher never gets the lower score: calculate_percentile does not increase
\* with the composite, the edge-blended tails included
C29_MonotoneInComposite ==
    (call.fn = "calculate_percentile_twice" /\ returned.done) =>
        returned.value >= returned.other

\* C30: from an absent history file, with the command run in a new process on
\* every trading day and all four features present each day, some run
\* eventually reports status COMPLETE
\* why no later day can differ: the file never gets a feature column, so
\* every new process loads empty baselines and its run leaves the file so
NoFeatureColumnSaved ==
    /\ file.cols = {}
    /\ obs.op = "run" => (obs.norm_stats = EmptyStats /\ result.components = <<>>)

====
